---- MODULE Spec2Model ----
(***************************************************************************)
(* A model of gforms.py: the registries of model classes, the inference    *)
(* of a trait structure from a Python value, the editable instances and    *)
(* their conversion back.                                                  *)
(*                                                                         *)
(* Python values are records tagged by k:                                  *)
(*   "int" "str" "float" "none"   base values, payload v (a text)          *)
(*   "obj"    an object with a __dict__: type name t, attributes attrs     *)
(*   "dict"   a mapping: attrs                                             *)
(*   "list"   a list: items                                                *)
(*   "model"  a ClassModel instance: class cls, assigned fields, __orig_obj*)
(*   "listmodel" a ListClassModel instance: class cls, _matrix             *)
(*   "generic"   a GenericTrait instance: is_list, is_dict, fields, orig   *)
(*   "default"   the not yet created default of an Instance(cls, ()) trait *)
(* A dictionary is a function from keys to values; a dictionary is walked  *)
(* in one fixed order of its keys (NextKey).                               *)
(***************************************************************************)
EXTENDS Integers, Sequences, FiniteSets, TLC

VARIABLES
    api,      \* _api_types_to_trait: name -> class
    dyn,      \* __dynamically_created_classes: name -> class
    classes,  \* every class object that exists, by its identity
    inst,     \* the editor object the caller holds (None before the first call)
    src,      \* the value the editor was built from
    out,      \* what the last get_object() returned
    err,      \* the exception the last call raised, "" when it returned
    op,       \* the last call
    before,   \* the editor object as it was when the last call started
    arg,      \* the argument of the last call
    thr       \* the threads inside get_or_create_ModelClass_for_obj: position and locals

vars == <<api, dyn, classes, inst, src, out, err, op, before, arg, thr>>

(***************************************************************************)
(* Python values                                                           *)
(***************************************************************************)
NoneV == [k |-> "none", v |-> "None"]
IntV(s) == [k |-> "int", v |-> s]
StrV(s) == [k |-> "str", v |-> s]
FloatV(s) == [k |-> "float", v |-> s]
ObjV(t, attrs) == [k |-> "obj", t |-> t, attrs |-> attrs]
DictV(attrs) == [k |-> "dict", attrs |-> attrs]
ListV(items) == [k |-> "list", items |-> items]
ModelI(cls, fields, orig) == [k |-> "model", cls |-> cls, fields |-> fields, orig |-> orig]
ListI(cls, matrix) == [k |-> "listmodel", cls |-> cls, matrix |-> matrix]
GenericI(is_list, is_dict, fields, orig) ==
    [k |-> "generic", is_list |-> is_list, is_dict |-> is_dict, fields |-> fields, orig |-> orig]
DefaultI(cls) == [k |-> "default", cls |-> cls]

EmptyDict == [x \in {} |-> NoneV]

\* the identity of no class: None
NoClass == ""

\* dict.get(key) of a dictionary of classes
Lookup(d, key) == IF key \in DOMAIN d THEN d[key] ELSE NoClass

\* d[key] = val
Store(d, key, val) == [x \in DOMAIN d \cup {key} |-> IF x = key THEN val ELSE d[x]]

\* d.update(e)
Update(d, e) == [x \in DOMAIN d \cup DOMAIN e |-> IF x \in DOMAIN e THEN e[x] ELSE d[x]]

\* the key a walk over the keys S visits first
NextKey(S) == CHOOSE x \in S : TRUE

\* key.startswith('_')
PrivateKeys == {"_id", "_matrix"}
IsPrivate(key) == key \in PrivateKeys

\* t in _registered_base_types
IsBase(v) == v.k \in {"int", "str", "float", "none"}

\* _is_list: the value has __add__ and __len__ (lists, and texts too)
is_list(v) == v.k \in {"list", "str"}

\* vars(obj) succeeds / hasattr(obj, "__dict__")
HasVars(v) == v.k = "obj"

\* iter(obj) of a sequence-like value; a text yields texts
Items(v) ==
    IF v.k = "list" THEN v.items
    ELSE IF v.k = "str" /\ v.v # "" THEN <<StrV(v.v)>>
    ELSE <<>>

\* _type_func(obj).__name__
TypeName(st, v) ==
    CASE v.k = "int" -> "int"
      [] v.k = "str" -> "str"
      [] v.k = "float" -> "float"
      [] v.k = "none" -> "NoneType"
      [] v.k = "obj" -> v.t
      [] v.k = "dict" -> "dict"
      [] v.k = "list" -> "list"
      [] v.k \in {"model", "listmodel", "default"} -> st.classes[v.cls].name
      [] OTHER -> "GenericTrait"

(***************************************************************************)
(* Traits: [tk, cls, item].                                                *)
(*   Int Str CStr Float Generic      the base traits                       *)
(*   Instance        Instance(cls, ()) of the class cls                    *)
(*   InstList        Instance(ListClassModel)                              *)
(*   InstGeneric     Instance(GenericTrait)                                *)
(*   List            List(item) of a base type                             *)
(*   Python          the trait of an attribute the class does not declare  *)
(***************************************************************************)
Tr(tk) == [tk |-> tk, cls |-> NoClass, item |-> ""]
InstanceOf(cls) == [tk |-> "Instance", cls |-> cls, item |-> ""]
ListTrait(item) == [tk |-> "List", cls |-> NoClass, item |-> item]

\* _base_types_to_trait
BaseTrait(v) ==
    CASE v.k = "int" -> Tr("Int")
      [] v.k = "str" -> Tr("CStr")
      [] v.k = "float" -> Tr("Float")
      [] OTHER -> Tr("Generic")

\* the default value of a trait
DefaultOf(tr) ==
    CASE tr.tk = "Int" -> IntV("0")
      [] tr.tk \in {"Str", "CStr"} -> StrV("")
      [] tr.tk = "Float" -> FloatV("0.0")
      [] tr.tk = "List" -> ListV(<<>>)
      [] tr.tk = "Instance" -> DefaultI(tr.cls)
      [] OTHER -> NoneV

\* whether the trait accepts the value
Accepts(tr, v) ==
    CASE tr.tk = "Int" -> v.k = "int"
      [] tr.tk = "Float" -> v.k \in {"float", "int"}
      [] tr.tk = "Str" -> v.k = "str"
      [] tr.tk = "Instance" -> v.k = "none" \/ (v.k \in {"model", "listmodel", "default"} /\ v.cls = tr.cls)
      [] tr.tk = "InstList" -> v.k \in {"none", "listmodel"}
      [] tr.tk = "InstGeneric" -> v.k \in {"none", "generic"}
      [] tr.tk = "List" -> v.k = "list" /\ \A i \in 1..Len(v.items) : v.items[i].k = tr.item
      [] OTHER -> TRUE

\* the value the trait stores for an accepted value: CStr and Float cast it
Cast(tr, v) ==
    CASE tr.tk = "CStr" /\ v.k \in {"int", "float", "none"} -> StrV(v.v)
      [] tr.tk = "CStr" /\ v.k # "str" -> StrV("<repr>")
      [] tr.tk = "Float" /\ v.k = "int" -> FloatV(v.v \o ".0")
      [] OTHER -> v

(***************************************************************************)
(* Classes.  A class object is a record; st = [api, dyn, classes] is the   *)
(* module's global state, threaded through every call.                     *)
(***************************************************************************)
EmptyTraits == [x \in {} |-> Tr("Generic")]
EmptyTemplates == [x \in {} |-> EmptyDict]

\* type(name, (ClassModel,), ...)
NewModelClass(name, traits) ==
    [kind |-> "model", name |-> name, traits |-> traits, inner |-> NoClass,
     orig_class |-> "", templates |-> EmptyTemplates]

\* type(name, (ListClassModel,), dict(__init__ = init, _orig_class = orig_class))
NewListClass(name, inner, orig_class) ==
    [kind |-> "list", name |-> name, traits |-> EmptyTraits, inner |-> inner,
     orig_class |-> orig_class, templates |-> EmptyTemplates]

\* the identity of a class object created under a name: the name itself for the first one,
\* marked for every further one
RECURSIVE NewId(_, _)
NewId(clss, name) == IF name \notin DOMAIN clss THEN name ELSE NewId(clss, name \o "+")

\* the outcome of a call that yields a trait and an editor object
Res(st, tr, obj, e) == [st |-> st, tr |-> tr, obj |-> obj, err |-> e]
Fail(st, e) == Res(st, Tr("Generic"), NoneV, e)

get_obj_t(st, cls_name) ==
    IF Lookup(st.api, cls_name) # NoClass THEN st.api[cls_name] ELSE Lookup(st.dyn, cls_name)

ListOfName(name) == "ListOf" \o name

getClassListOf(st, innerName) == Lookup(st.dyn, ListOfName(innerName))

create_ListClass(st, name, innerClass, orig_class) ==
    LET id == NewId(st.classes, name)
    IN  [st |-> [st EXCEPT !.classes = Store(@, id, NewListClass(name, innerClass, orig_class)),
                           !.dyn = Store(@, name, id)],
         cls |-> id]

get_or_create_ClassListOf(st, innerClass, orig_class) ==
    LET name == ListOfName(st.classes[innerClass].name)
    IN  IF Lookup(st.dyn, name) # NoClass
        THEN [st |-> st, cls |-> st.dyn[name]]
        ELSE create_ListClass(st, name, innerClass, orig_class)

\* the trait a class declares for a key; an undeclared attribute is a Python attribute
FieldTrait(st, c, key) ==
    IF key \in DOMAIN st.classes[c].traits THEN st.classes[c].traits[key] ELSE Tr("Python")

\* the key of position i of a list shown as an object: 'pos' + str(i)
PosName(i) == "pos" \o ToString(i)

\* The functions below call one another, directly and through the constructors of the
\* classes they create. A call of one of them from another is written Call(f, <<args>>),
\* f being the name of the function called.
RECURSIVE Call(_, _)

\* GenericTrait._create_get_traits: the trait and the editor value of every public key
create_get_traits(st, obj_props, keys, traits, traits_ed) ==
    IF keys = {} THEN [st |-> st, traits |-> traits, vals |-> traits_ed, err |-> ""]
    ELSE LET key == NextKey(keys)
             value == obj_props[key]
             rest == keys \ {key}
         IN  IF IsPrivate(key) THEN Call("create_get_traits", <<st, obj_props, rest, traits, traits_ed>>)
             ELSE IF get_obj_t(st, TypeName(st, value)) # NoClass \/ ~IsBase(value)
             THEN LET r == Call("get_or_create_trait_for", <<st, value>>)
                  IN  IF r.err # ""
                      THEN [st |-> r.st, traits |-> traits, vals |-> traits_ed, err |-> r.err]
                      ELSE Call("create_get_traits", <<r.st, obj_props, rest,
                                             Store(traits, key, r.tr), Store(traits_ed, key, r.obj)>>)
             ELSE Call("create_get_traits", <<st, obj_props, rest,
                                    Store(traits, key, BaseTrait(value)), Store(traits_ed, key, value)>>)

\* _create_ModelClass: the class is stored after its traits were created
create_ModelClass(st, name, obj) ==
    LET r == Call("create_get_traits", <<st, obj.attrs, DOMAIN obj.attrs, EmptyTraits, EmptyDict>>)
        id == NewId(r.st.classes, name)
    IN  IF r.err # "" THEN [st |-> r.st, cls |-> NoClass, err |-> r.err]
        ELSE [st |-> [r.st EXCEPT !.classes = Store(@, id, NewModelClass(name, r.traits)),
                                  !.dyn = Store(@, name, id)],
              cls |-> id, err |-> ""]

get_or_create_ModelClass_for_obj(st, obj) ==
    LET t_name == TypeName(st, obj)
    IN  IF Lookup(st.dyn, t_name) # NoClass
        THEN [st |-> st, cls |-> st.dyn[t_name], err |-> ""]
        ELSE Call("create_ModelClass", <<st, t_name, obj>>)

\* HasTraits.set(**traits) at the end of a constructor: every value is validated
trait_set(st, c, mod) ==
    IF \A key \in DOMAIN mod : Accepts(FieldTrait(st, c, key), mod[key])
    THEN [st |-> st, fields |-> [key \in DOMAIN mod |-> Cast(FieldTrait(st, c, key), mod[key])], err |-> ""]
    ELSE [st |-> st, fields |-> EmptyDict, err |-> "TraitError"]

\* set_init, lines 210-221: an object or a mapping is converted to its editor object
convert_field(st, c, key, val) ==
    IF IsBase(val) \/ is_list(val) THEN [st |-> st, val |-> val, skip |-> FALSE]
    ELSE LET r == Call("get_or_create_trait_for", <<st, val>>)
         IN  IF r.err # "" THEN [st |-> r.st, val |-> val, skip |-> TRUE]
             ELSE IF key \notin DOMAIN r.st.classes[c].traits
             THEN [st |-> r.st, val |-> val, skip |-> TRUE]
             ELSE IF r.st.classes[c].traits[key].tk = "Generic"
             THEN [st |-> [r.st EXCEPT !.classes[c].traits[key] = r.tr], val |-> r.obj, skip |-> FALSE]
             ELSE [st |-> r.st, val |-> r.obj, skip |-> FALSE]

\* assign_field with a rejected value raising instead of being dropped
assign_field_strict(st, c, key, val) ==
    IF Accepts(FieldTrait(st, c, key), val)
    THEN [st |-> st, put |-> TRUE, val |-> val, err |-> ""]
    ELSE IF is_list(val) /\ Len(Items(val)) > 0
    THEN LET tlistc == getClassListOf(st, TypeName(st, Items(val)[1]))
             r == Call("Construct", <<st, tlistc, val>>)
         IN  IF tlistc = NoClass THEN [st |-> st, put |-> FALSE, val |-> val, err |-> "TypeError"]
             ELSE IF r.err # "" THEN [st |-> r.st, put |-> FALSE, val |-> val, err |-> r.err]
             ELSE [st |-> r.st, put |-> TRUE, val |-> r.obj, err |-> ""]
    ELSE IF is_list(val) THEN [st |-> st, put |-> FALSE, val |-> val, err |-> ""]
    ELSE [st |-> st, put |-> FALSE, val |-> val, err |-> "TraitError"]

\* assign_field with an empty list that is rejected raising instead of being skipped
assign_field_empty_raises(st, c, key, val) ==
    IF Accepts(FieldTrait(st, c, key), val)
    THEN [st |-> st, put |-> TRUE, val |-> val, err |-> ""]
    ELSE IF is_list(val) /\ Len(Items(val)) > 0
    THEN LET tlistc == getClassListOf(st, TypeName(st, Items(val)[1]))
             r == Call("Construct", <<st, tlistc, val>>)
         IN  IF tlistc = NoClass THEN [st |-> st, put |-> FALSE, val |-> val, err |-> "TypeError"]
             ELSE IF r.err # "" THEN [st |-> r.st, put |-> FALSE, val |-> val, err |-> r.err]
             ELSE [st |-> r.st, put |-> TRUE, val |-> r.obj, err |-> ""]
    ELSE IF is_list(val) THEN [st |-> st, put |-> FALSE, val |-> val, err |-> "TraitError"]
    ELSE [st |-> st, put |-> FALSE, val |-> val, err |-> ""]

\* set_init, lines 223-242: the value is validated, a list is converted when it is not valid
assign_field(st, c, key, val) ==
    IF Accepts(FieldTrait(st, c, key), val)
    THEN [st |-> st, put |-> TRUE, val |-> val, err |-> ""]
    ELSE IF is_list(val) /\ Len(Items(val)) > 0
    THEN LET tlistc == getClassListOf(st, TypeName(st, Items(val)[1]))
             r == Call("Construct", <<st, tlistc, val>>)
         IN  IF tlistc = NoClass THEN [st |-> st, put |-> FALSE, val |-> val, err |-> "TypeError"]
             ELSE IF r.err # "" THEN [st |-> r.st, put |-> FALSE, val |-> val, err |-> r.err]
             ELSE [st |-> r.st, put |-> TRUE, val |-> r.obj, err |-> ""]
    ELSE [st |-> st, put |-> FALSE, val |-> val, err |-> ""]

\* ClassModel.set_init
set_init(st, c, traits, keys, mod_traits) ==
    IF keys = {} THEN trait_set(st, c, mod_traits)
    ELSE LET key == NextKey(keys)
             rest == keys \ {key}
             val == traits[key]
         IN  IF IsPrivate(key) \/ key = "Templates" \/ val.k = "none"
             THEN Call("set_init", <<st, c, traits, rest, mod_traits>>)
             ELSE LET conv == Call("convert_field", <<st, c, key, val>>)
                      a == Call("assign_field", <<conv.st, c, key, conv.val>>)
                  IN  IF conv.skip THEN Call("set_init", <<conv.st, c, traits, rest, mod_traits>>)
                      ELSE IF a.err # "" THEN [st |-> a.st, fields |-> EmptyDict, err |-> a.err]
                      ELSE Call("set_init", <<a.st, c, traits, rest,
                                    IF a.put THEN Store(mod_traits, key, a.val) ELSE mod_traits>>)

\* ClassModel.__init__
ClassModel_init(st, c, obj) ==
    IF obj.k = "none" THEN Res(st, InstanceOf(c), ModelI(c, EmptyDict, NoneV), "")
    ELSE IF HasVars(obj) \/ obj.k = "dict"
    THEN LET r == Call("set_init", <<st, c, obj.attrs, DOMAIN obj.attrs, EmptyDict>>)
         IN  IF r.err # "" THEN Fail(r.st, r.err)
             ELSE Res(r.st, InstanceOf(c), ModelI(c, r.fields, IF HasVars(obj) THEN obj ELSE NoneV), "")
    ELSE Fail(st, "AttributeError")

\* ListClassModel.__init__, lines 315-323: every element is appended, converted when needed
append_elems(st, trait_t, elems, matrix) ==
    IF elems = <<>> THEN [st |-> st, matrix |-> matrix, err |-> ""]
    ELSE LET elem == Head(elems)
             r == Call("Construct", <<st, trait_t, elem>>)
         IN  IF elem.k \in {"model", "listmodel"} /\ elem.cls = trait_t
             THEN Call("append_elems", <<st, trait_t, Tail(elems), Append(matrix, elem)>>)
             ELSE IF r.err # "" THEN [st |-> r.st, matrix |-> matrix, err |-> r.err]
             ELSE Call("append_elems", <<r.st, trait_t, Tail(elems), Append(matrix, r.obj)>>)

\* ListClassModel.__init__
ListClassModel_init(st, c, obj) ==
    LET trait_t == st.classes[c].inner
        r == Call("append_elems", <<st, trait_t, Items(obj), <<>>>>)
    IN  IF trait_t = NoClass THEN Fail(st, "TraitError")
        ELSE IF ~is_list(obj) THEN Res(st, InstanceOf(c), ListI(c, <<>>), "")
        ELSE IF r.err # "" THEN Fail(r.st, r.err)
        ELSE Res(r.st, InstanceOf(c), ListI(c, r.matrix), "")

\* the call cls(obj) of a class made by _create_ModelClass or _create_ListClass
Construct(st, c, obj) ==
    IF st.classes[c].kind = "list" THEN Call("ListClassModel_init", <<st, c, obj>>)
    ELSE Call("ClassModel_init", <<st, c, obj>>)

\* GenericTrait.__init__
GenericTrait_init(st, obj, as_list) ==
    LET items == Items(obj)
        obj_props == IF as_list THEN [key \in {PosName(i - 1) : i \in 1..Len(items)} |->
                                        items[CHOOSE i \in 1..Len(items) : PosName(i - 1) = key]]
                     ELSE obj.attrs
        r == Call("create_get_traits", <<st, obj_props, DOMAIN obj_props, EmptyTraits, EmptyDict>>)
    IN  IF ~as_list /\ ~HasVars(obj) /\ obj.k # "dict" THEN Fail(st, "AttributeError")
        ELSE IF r.err # "" THEN Fail(r.st, r.err)
        ELSE Res(r.st, Tr("InstGeneric"),
                 GenericI(as_list, ~as_list /\ ~HasVars(obj),
                          [key \in DOMAIN r.vals |-> Cast(r.traits[key], r.vals[key])],
                          IF ~as_list /\ HasVars(obj) THEN obj ELSE NoneV), "")

create_list_trait(st, obj) ==
    LET items == Items(obj)
        types == {TypeName(st, items[i]) : i \in 1..Len(items)}
        first == items[1]
        model == get_obj_t(st, TypeName(st, first))
        made == Call("get_or_create_ModelClass_for_obj", <<st, first>>)
        mst == IF model # NoClass THEN st ELSE made.st
        mcls == IF model # NoClass THEN model ELSE made.cls
        lc == get_or_create_ClassListOf(mst, mcls, TypeName(st, first))
        r == Call("Construct", <<lc.st, lc.cls, obj>>)
    IN  IF Cardinality(types) # 1 THEN Call("GenericTrait_init", <<st, obj, TRUE>>)
        ELSE IF IsBase(first) THEN Res(st, ListTrait(first.k), obj, "")
        ELSE IF model = NoClass /\ ~HasVars(first) THEN Call("GenericTrait_init", <<st, obj, TRUE>>)
        ELSE IF model = NoClass /\ made.err # "" THEN Fail(made.st, made.err)
        ELSE IF r.err # "" THEN Fail(r.st, r.err)
        ELSE Res(r.st, Tr("InstList"), r.obj, "")

create_generic_trait(st, obj) ==
    LET made == Call("get_or_create_ModelClass_for_obj", <<st, obj>>)
        r == Call("Construct", <<made.st, made.cls, obj>>)
    IN  IF is_list(obj) THEN Call("create_list_trait", <<st, obj>>)
        ELSE IF ~HasVars(obj) THEN Call("GenericTrait_init", <<st, obj, FALSE>>)
        ELSE IF made.err # "" THEN Fail(made.st, made.err)
        ELSE IF r.err # "" THEN Fail(r.st, r.err)
        ELSE Res(r.st, InstanceOf(made.cls), r.obj, "")

get_or_create_trait_for(st, obj) ==
    LET trait_t == get_obj_t(st, TypeName(st, obj))
        r == Call("Construct", <<st, trait_t, obj>>)
    IN  IF trait_t # NoClass
        THEN (IF r.err # "" THEN Fail(r.st, r.err) ELSE Res(r.st, InstanceOf(trait_t), r.obj, ""))
        ELSE Call("create_generic_trait", <<st, obj>>)

\* f(a[1], ..., a[n]) for a function f of lines 171-726
Call(f, a) ==
    CASE f = "get_or_create_trait_for" -> get_or_create_trait_for(a[1], a[2])
      [] f = "create_generic_trait" -> create_generic_trait(a[1], a[2])
      [] f = "create_list_trait" -> create_list_trait(a[1], a[2])
      [] f = "create_get_traits" -> create_get_traits(a[1], a[2], a[3], a[4], a[5])
      [] f = "create_ModelClass" -> create_ModelClass(a[1], a[2], a[3])
      [] f = "get_or_create_ModelClass_for_obj" -> get_or_create_ModelClass_for_obj(a[1], a[2])
      [] f = "GenericTrait_init" -> GenericTrait_init(a[1], a[2], a[3])
      [] f = "ClassModel_init" -> ClassModel_init(a[1], a[2], a[3])
      [] f = "set_init" -> set_init(a[1], a[2], a[3], a[4], a[5])
      [] f = "convert_field" -> convert_field(a[1], a[2], a[3], a[4])
      [] f = "assign_field" -> assign_field(a[1], a[2], a[3], a[4])
      [] f = "ListClassModel_init" -> ListClassModel_init(a[1], a[2], a[3])
      [] f = "append_elems" -> append_elems(a[1], a[2], a[3], a[4])
      [] f = "Construct" -> Construct(a[1], a[2], a[3])

(***************************************************************************)
(* Conversion back                                                         *)
(***************************************************************************)
\* the types whose constructor accepts no arguments (cast_to() succeeds)
NoArgTypes == {"User", "Node", "Box"}

\* the types that are built with no arguments but whose instances have no __dict__
NoDictTypes == {"dict"}

\* the decimal digits of str(i)
RECURSIVE Digits(_)
Digits(i) == IF i < 10 THEN <<i>> ELSE Append(Digits(i \div 10), i % 10)

\* a < b for two texts given by their characters
RECURSIVE LexLess(_, _)
LexLess(a, b) ==
    IF a = <<>> THEN b # <<>>
    ELSE IF b = <<>> THEN FALSE
    ELSE IF Head(a) # Head(b) THEN Head(a) < Head(b)
    ELSE LexLess(Tail(a), Tail(b))

\* the position a key 'pos<i>' names
PosIndex(key, n) == CHOOSE i \in 0..(n - 1) : PosName(i) = key

\* key1 < key2 as Python compares the texts 'pos<i>' and 'pos<j>'
KeyLess(key1, key2, n) == LexLess(Digits(PosIndex(key1, n)), Digits(PosIndex(key2, n)))

\* sorted(elems.keys())
RECURSIVE sorted_keys(_, _)
sorted_keys(keys, n) ==
    IF keys = {} THEN <<>>
    ELSE LET least == CHOOSE x \in keys : \A y \in keys \ {x} : KeyLess(x, y, n)
         IN  <<least>> \o sorted_keys(keys \ {least}, n)

\* self.get(private = is_none): every declared or assigned attribute, unassigned ones at
\* their default
visible_fields(st, x) ==
    LET c == st.classes[x.cls]
        fields == IF x.k = "model" THEN x.fields ELSE EmptyDict
    IN  [key \in DOMAIN c.traits \cup DOMAIN fields |->
            IF key \in DOMAIN fields THEN fields[key] ELSE DefaultOf(c.traits[key])]

RECURSIVE get_object(_, _, _)
RECURSIVE get_conv(_, _)
RECURSIVE cast_back(_, _, _)

\* ClassModel.get_conv: only the values that are ClassModel instances are converted
get_conv(st, x) ==
    LET elems == visible_fields(st, x)
    IN  [key \in DOMAIN elems |->
            IF elems[key].k \in {"model", "listmodel", "default"}
            THEN get_object(st, elems[key], FALSE) ELSE elems[key]]

\* GenericTrait.cast_back
cast_back(st, obj, cast_to) ==
    IF IsBase(obj) \/ obj.k = "list" THEN obj
    ELSE IF cast_to = "" THEN get_object(st, obj, FALSE)
    ELSE IF cast_to \notin NoArgTypes THEN obj
    ELSE ObjV(cast_to, get_object(st, obj, TRUE).attrs)

\* get_object with a ClassModel that has no original object returning its fields as a mapping
get_object_mapping(st, x, as_dict) ==
    CASE x.k \in {"model", "default"} ->
            LET elems == get_conv(st, x)
            IN  IF as_dict \/ x.k = "default" \/ x.orig.k = "none" THEN DictV(elems)
                ELSE ObjV(x.orig.t, Update(x.orig.attrs, elems))
      [] x.k = "listmodel" ->
            ListV([i \in 1..Len(x.matrix) |-> cast_back(st, x.matrix[i], st.classes[x.cls].orig_class)])
      [] x.k = "generic" ->
            LET elems == [key \in DOMAIN x.fields |-> cast_back(st, x.fields[key], "")]
                keys == sorted_keys(DOMAIN elems, Cardinality(DOMAIN elems))
            IN  IF x.is_list THEN ListV([i \in 1..Len(keys) |-> elems[keys[i]]])
                ELSE IF as_dict \/ x.is_dict THEN DictV(elems)
                ELSE ObjV(x.orig.t, Update(x.orig.attrs, elems))
      [] OTHER -> x

\* ClassModel.get_object, ListClassModel.get_object and GenericTrait.get_object
get_object(st, x, as_dict) ==
    CASE x.k \in {"model", "default"} ->
            LET elems == get_conv(st, x)
            IN  IF as_dict THEN DictV(elems)
                ELSE IF x.k = "default" \/ x.orig.k = "none" THEN x
                ELSE ObjV(x.orig.t, Update(x.orig.attrs, elems))
      [] x.k = "listmodel" ->
            ListV([i \in 1..Len(x.matrix) |-> cast_back(st, x.matrix[i], st.classes[x.cls].orig_class)])
      [] x.k = "generic" ->
            LET elems == [key \in DOMAIN x.fields |-> cast_back(st, x.fields[key], "")]
                keys == sorted_keys(DOMAIN elems, Cardinality(DOMAIN elems))
            IN  IF x.is_list THEN ListV([i \in 1..Len(keys) |-> elems[keys[i]]])
                ELSE IF as_dict \/ x.is_dict THEN DictV(elems)
                ELSE ObjV(x.orig.t, Update(x.orig.attrs, elems))
      [] OTHER -> x

\* the exception a conversion back raises, "" when it returns: cast_back writes the fields
\* into new_obj.__dict__ outside its try block
RECURSIVE get_object_err(_, _)
get_object_err(st, x) ==
    LET inner == CASE x.k = "model" ->
                        {x.fields[key] : key \in {f \in DOMAIN x.fields :
                                                      x.fields[f].k \in {"model", "listmodel"}}}
                   [] x.k = "listmodel" ->
                        IF st.classes[x.cls].orig_class \in NoArgTypes \cup NoDictTypes \cup {""}
                        THEN {x.matrix[i] : i \in 1..Len(x.matrix)} ELSE {}
                   [] x.k = "generic" ->
                        {x.fields[key] : key \in {f \in DOMAIN x.fields :
                                                      ~IsBase(x.fields[f]) /\ x.fields[f].k # "list"}}
                   [] OTHER -> {}
    IN  IF x.k = "listmodel" /\ Len(x.matrix) > 0 /\ st.classes[x.cls].orig_class \in NoDictTypes
        THEN "AttributeError"
        ELSE IF \E y \in inner : get_object_err(st, y) # "" THEN "AttributeError"
        ELSE ""

(***************************************************************************)
(* The classes the caller wrote by hand, and the values the caller edits   *)
(***************************************************************************)
\* class User(ClassModel): name = Str; number = Int; _templates = {...}
UserModel ==
    [kind |-> "model", name |-> "User", inner |-> NoClass, orig_class |-> "",
     traits |-> [name |-> Tr("Str"), number |-> Tr("Int")],
     templates |-> [t1 |-> [name |-> StrV("A")],
                    t2 |-> [name |-> StrV("B"), number |-> IntV("7")],
                    bad |-> [name |-> StrV("C"), number |-> StrV("x")]]]

\* class Person(ClassModel): name = Str
PersonModel ==
    [kind |-> "model", name |-> "Person", inner |-> NoClass, orig_class |-> "",
     traits |-> [name |-> Tr("Str")], templates |-> EmptyTemplates]

HandClasses == [UserModel |-> UserModel, PersonModel |-> PersonModel]

\* the class was created by _create_ModelClass or _create_ListClass
IsDynamic(c) == c \notin DOMAIN HandClasses

U1 == ObjV("User", [name |-> StrV("F1"), number |-> IntV("1")])
U2 == ObjV("User", [name |-> StrV("F2"), number |-> IntV("2")])
U3 == ObjV("User", [name |-> StrV("F3"), number |-> FloatV("1.5")])
U4 == ObjV("User", [name |-> StrV("F4"), number |-> StrV("x")])
U5 == ObjV("User", [name |-> StrV("F5"), number |-> DictV([x |-> IntV("1")])])
D1 == DictV([name |-> StrV("F1"), number |-> IntV("1")])
D2 == DictV([name |-> StrV("F2"), number |-> IntV("2")])
N1 == ObjV("Node", [val |-> IntV("1"), next |-> ObjV("Node", [val |-> IntV("2")])])
B1 == ObjV("Box", [a |-> DictV([x |-> IntV("1")])])
O1 == ObjV("Owner", [u |-> U1, tag |-> StrV("t"), none |-> NoneV, nums |-> ListV(<<IntV("1"), IntV("2")>>)])
H1 == ObjV("Box", [e |-> ListV(<<>>), n |-> IntV("1")])
L1 == ListV(<<U1, U2>>)
L2 == ListV(<<D1, D2>>)
L3 == ListV(<<U1, U4>>)
E0 == ListV(<<>>)
M3 == ListV(<<IntV("1"), StrV("a"), DictV([x |-> IntV("1")])>>)

\* a mixed list of MixedLen elements: texts at the even positions, integers at the odd ones
MixedLen == 11
MLong == ListV([i \in 1..MixedLen |-> IF i % 2 = 1 THEN StrV(ToString(i - 1)) ELSE IntV(ToString(i - 1))])

\* the values edited where the registries matter
Samples == {U1, U3, U5, N1, L1, L2, L3}

\* values of the base types: an integer, a float, a text and None
BaseSamples == {IntV("5"), FloatV("2.5"), StrV("ab"), NoneV}

\* the values edited for their shape
ShapeSamples == {B1, H1, O1, E0, M3, MLong, D1, L1} \cup BaseSamples

\* two objects of a type whose constructor needs arguments
LP == ListV(<<ObjV("Person", [name |-> StrV("P1")]), ObjV("Person", [name |-> StrV("P2")])>>)

\* an object of a class that is named as the list class of User is
LO == ObjV("ListOfUser", [size |-> IntV("2")])

\* the values edited for their list class
ListSamples == {L1, L2, LP, LO}

\* objects of one type whose attribute v holds nothing, an integer, an object, a mapping
\* and a list
G0 == ObjV("Slot", [v |-> NoneV])
GI == ObjV("Slot", [v |-> IntV("1")])
GS == ObjV("Slot", [v |-> U1])
GD == ObjV("Slot", [v |-> D1])
GL == ObjV("Slot", [v |-> L1])

\* an object of that type with one attribute more, and one whose second attribute is an object
GX == ObjV("Slot", [v |-> IntV("1"), w |-> IntV("2")])
GY == ObjV("Slot", [v |-> IntV("1"), w |-> U1])

\* the values edited for the kind of their field
FieldSamples == {G0, GI, GS, GD, GL, GX, GY, L1}

\* the values edited with the hand-written models
ModelSamples == {U1, U2, D1}

\* the longest _matrix a caller appends to
MaxItems == 3

(***************************************************************************)
(* Template selection                                                      *)
(***************************************************************************)
\* HasTraits.set(**traits): the attributes are assigned one by one, in the order the
\* dictionary yields them; the first value its trait rejects raises TraitError
RECURSIVE set_traits(_, _, _, _)
set_traits(st, x, traits, order) ==
    IF order = <<>> THEN [obj |-> x, err |-> ""]
    ELSE LET key == Head(order)
             tr == FieldTrait(st, x.cls, key)
         IN  IF ~Accepts(tr, traits[key]) THEN [obj |-> x, err |-> "TraitError"]
             ELSE set_traits(st, [x EXCEPT !.fields = Store(@, key, Cast(tr, traits[key]))],
                             traits, Tail(order))

\* HasTraits.reset_traits(): every trait attribute goes back to its default
reset_traits(x) == [obj |-> [x EXCEPT !.fields = EmptyDict, !.orig = NoneV], err |-> ""]

\* _Templates_changed with a name that is no template leaving the attributes as they are
Templates_changed_keep(st, x, new, order) ==
    IF new \in DOMAIN st.classes[x.cls].templates
    THEN set_traits(st, x, st.classes[x.cls].templates[new], order)
    ELSE [obj |-> x, err |-> ""]

\* ClassModel._Templates_changed
Templates_changed(st, x, new, order) ==
    IF new \in DOMAIN st.classes[x.cls].templates
    THEN set_traits(st, x, st.classes[x.cls].templates[new], order)
    ELSE reset_traits(x)

\* the orders in which a dictionary with the keys S can be walked
Orders(S) == {o \in [1..Cardinality(S) -> S] : \A i, j \in 1..Cardinality(S) : i # j => o[i] # o[j]}

\* the names a caller selects: the templates of the hand-written model, no selection, and
\* a name that is no template
TemplateNames == {"t1", "t2", "bad", "", "bogus"}

(***************************************************************************)
(* The calls                                                               *)
(***************************************************************************)
State == [api |-> api, dyn |-> dyn, classes |-> classes]

\* the threads that call get_or_create_ModelClass_for_obj, and a thread outside a call
Threads == {"t1", "t2"}
IdleThread == [pc |-> "idle", obj |-> NoneV, cls |-> NoClass]

Init ==
    /\ api = [x \in {} |-> NoClass]
    /\ dyn = [x \in {} |-> NoClass]
    /\ classes = HandClasses
    /\ inst = NoneV
    /\ src = NoneV
    /\ out = NoneV
    /\ err = ""
    /\ op = "init"
    /\ before = NoneV
    /\ arg = NoneV
    /\ thr = [t \in Threads |-> IdleThread]

\* get_or_create_editor_for_obj(obj)
Edit(obj) ==
    LET r == get_or_create_trait_for(State, obj)
    IN  /\ api' = r.st.api
        /\ dyn' = r.st.dyn
        /\ classes' = r.st.classes
        /\ inst' = r.obj
        /\ src' = obj
        /\ out' = NoneV
        /\ err' = r.err
        /\ op' = "edit"
        /\ before' = NoneV
        /\ arg' = NoneV
        /\ UNCHANGED thr

\* trait_ed.get_object()
GetObject ==
    /\ inst.k \in {"model", "listmodel", "generic"}
    /\ err' = get_object_err(State, inst)
    /\ out' = IF get_object_err(State, inst) = "" THEN get_object(State, inst, FALSE) ELSE NoneV
    /\ op' = "get_object"
    /\ before' = NoneV
    /\ arg' = NoneV
    /\ UNCHANGED <<api, dyn, classes, inst, src, thr>>

\* the update keeping the handler a name already has
api_update_first(types, name, handler) ==
    IF name \in DOMAIN types THEN types ELSE Update(types, [x \in {name} |-> handler])

\* _api_types_to_trait.update(types)
api_update(types, name, handler) == Update(types, [x \in {name} |-> handler])

\* register_api_type_handler(name = handler)
register_api_type_handler(name, handler) ==
    /\ api' = api_update(api, name, handler)
    /\ err' = ""
    /\ op' = "register"
    /\ before' = [k |-> "api", api |-> api]
    /\ arg' = [k |-> "reg", name |-> name, cls |-> handler]
    /\ out' = NoneV
    /\ UNCHANGED <<dyn, classes, inst, src, thr>>

\* an append that coerces a rejected element with the inner class, as the constructor does
append_coerce(x, obj) ==
    LET r == Construct(State, classes[x.cls].inner, obj)
    IN  IF Accepts(InstanceOf(classes[x.cls].inner), obj)
        THEN [obj |-> [x EXCEPT !.matrix = Append(@, obj)], err |-> ""]
        ELSE IF r.err = "" THEN [obj |-> [x EXCEPT !.matrix = Append(@, r.obj)], err |-> ""]
        ELSE [obj |-> x, err |-> "ListElementTypeError"]

\* ListClassModel.append(obj): the List trait of _matrix validates the new item
append(x, obj) ==
    IF Accepts(InstanceOf(classes[x.cls].inner), obj)
    THEN [obj |-> [x EXCEPT !.matrix = Append(@, obj)], err |-> ""]
    ELSE [obj |-> x, err |-> "TraitError"]

Append_(obj) ==
    /\ inst.k = "listmodel"
    /\ Len(inst.matrix) < MaxItems
    /\ inst' = append(inst, obj).obj
    /\ err' = append(inst, obj).err
    /\ op' = "append"
    /\ before' = inst
    /\ arg' = obj
    /\ out' = NoneV
    /\ UNCHANGED <<api, dyn, classes, src, thr>>

\* the caller selects a template: the Templates attribute changes to new
SelectTemplate(new) ==
    /\ inst.k = "model"
    /\ \E order \in Orders(IF new \in DOMAIN classes[inst.cls].templates
                           THEN DOMAIN classes[inst.cls].templates[new] ELSE {}) :
          /\ inst' = Templates_changed(State, inst, new, order).obj
          /\ err' = Templates_changed(State, inst, new, order).err
    /\ op' = "template"
    /\ before' = inst
    /\ arg' = StrV(new)
    /\ out' = NoneV
    /\ UNCHANGED <<api, dyn, classes, src, thr>>

\* ListOf(Klass) in a hand-written model: the list class of Klass, made without orig_class
ListOf(Klass) ==
    LET r == get_or_create_ClassListOf(State, Klass, "")
    IN  /\ dyn' = r.st.dyn
        /\ classes' = r.st.classes
        /\ err' = ""
        /\ op' = "listof"
        /\ before' = NoneV
        /\ arg' = [k |-> "cls", cls |-> Klass]
        /\ out' = NoneV
        /\ UNCHANGED <<api, inst, src, thr>>

\* the items a caller appends: a record as it is, and a new element of the list's own
\* inner type, as the list editor creates it
NewElement == ModelI(classes[inst.cls].inner, EmptyDict, NoneV)

Next ==
    \/ \E obj \in Samples : Edit(obj)
    \/ GetObject
    \/ \E handler \in DOMAIN HandClasses : register_api_type_handler("User", handler)
    \/ inst.k = "listmodel" /\ \E obj \in {U2, NewElement} : Append_(obj)

Spec == Init /\ [][Next]_vars

ShapeNext ==
    \/ \E obj \in ShapeSamples : Edit(obj)
    \/ GetObject

SpecShape == Init /\ [][ShapeNext]_vars

ModelNext ==
    \/ \E obj \in ModelSamples : Edit(obj)
    \/ GetObject
    \/ \E name \in {"User", "dict"}, handler \in DOMAIN HandClasses :
          register_api_type_handler(name, handler)
    \/ \E new \in TemplateNames : SelectTemplate(new)

SpecModel == Init /\ [][ModelNext]_vars

ListNext ==
    \/ \E obj \in ListSamples : Edit(obj)
    \/ GetObject
    \/ \E name \in {"User", "dict"} : register_api_type_handler(name, "UserModel")
    \/ ListOf("UserModel")
    \/ inst.k = "listmodel" /\ \E obj \in {U2, NewElement} : Append_(obj)

SpecList == Init /\ [][ListNext]_vars

FieldNext ==
    \/ \E obj \in FieldSamples : Edit(obj)
    \/ GetObject

SpecField == Init /\ [][FieldNext]_vars

(***************************************************************************)
(* Two threads in get_or_create_ModelClass_for_obj.  Nothing in the module *)
(* locks the registry, so a thread may be suspended between any two of the *)
(* steps: the lookup, the creation of the class and the store.             *)
(***************************************************************************)
\* the objects the threads synthesize a class for: flat objects, two shapes of one type name
\* and one of another
ThreadSamples == {U1, U3, ObjV("Person", [name |-> StrV("P1")])}

\* a thread calls get_or_create_ModelClass_for_obj(obj)
ThreadCall(t, obj) ==
    /\ thr[t].pc = "idle"
    /\ thr' = [thr EXCEPT ![t] = [pc |-> "get", obj |-> obj, cls |-> NoClass]]
    /\ UNCHANGED <<api, dyn, classes, inst, src, out, err, op, before, arg>>

\* line 576: __dynamically_created_classes.get(t_name); a class found is returned
ThreadGet(t) ==
    /\ thr[t].pc = "get"
    /\ LET found == Lookup(dyn, TypeName(State, thr[t].obj))
       IN  thr' = [thr EXCEPT ![t].pc = IF found # NoClass THEN "done" ELSE "create",
                              ![t].cls = found]
    /\ UNCHANGED <<api, dyn, classes, inst, src, out, err, op, before, arg>>

\* lines 566-570 of _create_ModelClass: the class object is made and given its traits
ThreadCreate(t) ==
    /\ thr[t].pc = "create"
    /\ LET name == TypeName(State, thr[t].obj)
           obj_props == thr[t].obj.attrs
           r == create_get_traits(State, obj_props, DOMAIN obj_props, EmptyTraits, EmptyDict)
           id == NewId(classes, name)
       IN  /\ classes' = Store(classes, id, NewModelClass(name, r.traits))
           /\ thr' = [thr EXCEPT ![t].pc = "store", ![t].cls = id]
    /\ UNCHANGED <<api, dyn, inst, src, out, err, op, before, arg>>

\* line 571: __dynamically_created_classes[name] = newClassModel
ThreadStore(t) ==
    /\ thr[t].pc = "store"
    /\ dyn' = Store(dyn, TypeName(State, thr[t].obj), thr[t].cls)
    /\ thr' = [thr EXCEPT ![t].pc = "done"]
    /\ UNCHANGED <<api, classes, inst, src, out, err, op, before, arg>>

\* the call returns the class to its caller
ThreadReturn(t) ==
    /\ thr[t].pc = "done"
    /\ thr' = [thr EXCEPT ![t] = IdleThread]
    /\ UNCHANGED <<api, dyn, classes, inst, src, out, err, op, before, arg>>

ThreadNext ==
    \/ \E t \in Threads, obj \in ThreadSamples : ThreadCall(t, obj)
    \/ \E t \in Threads : ThreadGet(t)
    \/ \E t \in Threads : ThreadCreate(t)
    \/ \E t \in Threads : ThreadStore(t)
    \/ \E t \in Threads : ThreadReturn(t)

SpecThreads == Init /\ [][ThreadNext]_vars

(***************************************************************************)
(* Properties                                                              *)
(***************************************************************************)
\* every editor object inside an editor object, itself included
RECURSIVE Nodes(_)
Nodes(x) ==
    CASE x.k \in {"model", "generic"} ->
            {x} \cup UNION {Nodes(x.fields[key]) : key \in DOMAIN x.fields}
      [] x.k = "listmodel" ->
            {x} \cup UNION {Nodes(x.matrix[i]) : i \in 1..Len(x.matrix)}
      [] OTHER -> {}

\* the model classes that synthesis created
DynamicModels == {c \in DOMAIN classes : IsDynamic(c) /\ classes[c].kind = "model"}

\* C1: as long as only synthesis calls were made, synthesis has created at most one model
\* class for a type name: every value of that name is given that one class.
C1_OneSchemaPerName ==
    DOMAIN api = {} =>
        \A c1, c2 \in DynamicModels : classes[c1].name = classes[c2].name => c1 = c2

\* C2: after an edit that follows register(name, S), every editor object built from an
\* object whose type name is name is an instance of S, wherever the object was reached
\* and whatever was inferred before the registration.
C2_RegisteredSchemaUsed ==
    (op = "edit" /\ err = "") =>
        \A x \in Nodes(inst) :
            (x.k = "model" /\ x.orig.k = "obj" /\ x.orig.t \in DOMAIN api) => x.cls = api[x.orig.t]

\* C3 as stated: registering a different handler under a registered name raises
\* DuplicateRegistrationError and leaves the registry as it was; registering the same
\* handler again changes nothing.
C3_DuplicateRejected ==
    op = "register" =>
        LET prior == Lookup(before.api, arg.name)
        IN  /\ (prior # NoClass /\ prior # arg.cls) =>
                    (err = "DuplicateRegistrationError" /\ api = before.api)
            /\ prior = arg.cls => (err = "" /\ api = before.api)

\* C3 amended: register(name, S2) raises no error, whatever is registered under name; the
\* registry then maps name to S2 and every other name as before, so that registering the
\* same handler again changes nothing.
C3_RegisterReplaces ==
    op = "register" =>
        /\ err = ""
        /\ DOMAIN api = DOMAIN before.api \cup {arg.name}
        /\ api[arg.name] = arg.cls
        /\ \A n \in DOMAIN before.api \ {arg.name} : api[n] = before.api[n]
        /\ Lookup(before.api, arg.name) = arg.cls => api = before.api

\* a different handler was registered under the name, and the call replaced it
C3_Witness ==
    /\ op = "register"
    /\ Lookup(before.api, arg.name) \notin {NoClass, arg.cls}
    /\ DOMAIN before.api # {arg.name}
    /\ api[arg.name] = arg.cls

\* C4: converting the editor built from an object back, with no edit in between, returns
\* an object whose attributes equal the attributes the object had.
C4_RoundTrip ==
    (op = "get_object" /\ src.k = "obj" /\ inst.k = "model") =>
        (out.k = "obj" /\ out.attrs = src.attrs)

\* C5: converting the editor of a mixed list back returns as many elements as the list
\* had, the i-th one being the value of the field pos<i>.
C5_PositionalOrder ==
    (op = "get_object" /\ inst.k = "generic" /\ inst.is_list) =>
        /\ out.k = "list"
        /\ Len(out.items) = Len(src.items)
        /\ \A i \in 1..Len(out.items) :
              out.items[i] = cast_back(State, inst.fields[PosName(i - 1)], "")

\* a non-empty list of records of one shape: mappings with the same keys, or objects of
\* one type with the same attributes
SameRecords(v) ==
    /\ v.k = "list"
    /\ Len(v.items) > 0
    /\ \A i \in 1..Len(v.items) :
          /\ v.items[i].k \in {"obj", "dict"}
          /\ v.items[i].k = v.items[1].k
          /\ DOMAIN v.items[i].attrs = DOMAIN v.items[1].attrs
          /\ v.items[i].k = "obj" => v.items[i].t = v.items[1].t

\* C6: editing a non-empty list of records of one shape yields a ListClassModel instance
\* whose elements are instances of one class; appending one more record of that shape
\* succeeds, and converting back returns one element per element of the list.
C6_HomogeneousList ==
    /\ (op = "edit" /\ SameRecords(src)) =>
          /\ err = ""
          /\ inst.k = "listmodel"
          /\ Len(inst.matrix) = Len(src.items)
          /\ \A i \in 1..Len(inst.matrix) :
                inst.matrix[i].k = "model" /\ inst.matrix[i].cls = inst.matrix[1].cls
    /\ (op = "append" /\ SameRecords(ListV(src.items \o <<arg>>))) =>
          (err = "" /\ Len(inst.matrix) = Len(before.matrix) + 1)
    /\ (op = "get_object" /\ inst.k = "listmodel") => Len(out.items) = Len(inst.matrix)

\* the value is an empty list, or an object with an attribute that is an empty list
HasEmptySeq(v) ==
    \/ v = ListV(<<>>)
    \/ v.k = "obj" /\ \E key \in DOMAIN v.attrs : v.attrs[key] = ListV(<<>>)

\* C7 as stated: an edit raises an error exactly when the value is an empty list or has an
\* attribute that is one.
C7_EmptySequenceFails ==
    op = "edit" => (HasEmptySeq(src) <=> err # "")

\* every attribute but the empty lists is a base value its trait accepts
OthersPlain(c, v) ==
    \A key \in DOMAIN v.attrs :
        \/ v.attrs[key] = ListV(<<>>)
        \/ IsBase(v.attrs[key]) /\ Accepts(FieldTrait(State, c, key), v.attrs[key])

\* C7 amended: an empty list raises no error. Edited by itself it yields a GenericTrait
\* list object with no fields; as the value of an attribute it is assigned when the trait
\* of the attribute accepts it and skipped otherwise, for every class and every attribute.
C7_EmptySequenceAccepted ==
    /\ (op = "edit" /\ src = ListV(<<>>)) =>
          (err = "" /\ inst = GenericI(TRUE, FALSE, EmptyDict, NoneV))
    /\ (op = "edit" /\ src.k = "obj" /\ HasEmptySeq(src) /\ OthersPlain(get_obj_t(State, src.t), src)) =>
          /\ err = ""
          /\ inst.k = "model"
          /\ \A key \in DOMAIN src.attrs :
                src.attrs[key] = ListV(<<>>) =>
                    IF Accepts(FieldTrait(State, inst.cls, key), ListV(<<>>))
                    THEN inst.fields[key] = ListV(<<>>)
                    ELSE key \notin DOMAIN inst.fields
    /\ \A c \in DOMAIN classes :
          \A key \in DOMAIN classes[c].traits \cup {"e"} :
              LET a == assign_field(State, c, key, ListV(<<>>))
              IN  a.err = "" /\ (a.put <=> Accepts(FieldTrait(State, c, key), ListV(<<>>)))

\* an object with an empty list was edited: no error, and the attribute was skipped
C7_Witness ==
    /\ op = "edit"
    /\ src = H1
    /\ err = ""
    /\ inst.k = "model"
    /\ "e" \notin DOMAIN inst.fields
    /\ inst.fields["n"] = IntV("1")

\* the attributes of an editor object after a template selection, and before it
FieldsNow == visible_fields(State, inst)
FieldsBefore == visible_fields(State, before)

\* every attribute is at the default its trait declares
AllDefault == \A key \in DOMAIN FieldsNow : FieldsNow[key] = DefaultOf(FieldTrait(State, inst.cls, key))

\* every attribute the selected template names has the template's value
AllPreset ==
    /\ arg.v \in DOMAIN classes[inst.cls].templates
    /\ \A key \in DOMAIN classes[inst.cls].templates[arg.v] :
          /\ key \in DOMAIN FieldsNow
          /\ FieldsNow[key] = classes[inst.cls].templates[arg.v][key]

C9_TemplateAtomic ==
    op = "template" => (AllPreset \/ AllDefault \/ (err # "" /\ inst = before))

\* a value that is neither integer-like nor sequence-like
NotIntNorSeq(v) == v.k \in {"float", "dict", "obj"}

\* the attributes declared Int whose value is neither integer-like nor sequence-like
BadIntKeys(c, v) ==
    {key \in DOMAIN v.attrs : FieldTrait(State, c, key).tk = "Int" /\ NotIntNorSeq(v.attrs[key])}

\* the attributes whose base value the declared trait accepts
ValidKeys(c, v) ==
    {key \in DOMAIN v.attrs : /\ IsBase(v.attrs[key])
                              /\ v.attrs[key].k # "none"
                              /\ Accepts(FieldTrait(State, c, key), v.attrs[key])}

\* C10: when an object is edited whose value for an attribute declared Int is neither
\* integer-like nor sequence-like (every other attribute holding a valid base value), no
\* error is raised, the attribute is left at its default and every other attribute is
\* assigned its value.
C10_LenientFieldDrop ==
    LET c == get_obj_t(State, src.t)
    IN  (op = "edit" /\ src.k = "obj" /\ BadIntKeys(c, src) # {}
            /\ DOMAIN src.attrs = BadIntKeys(c, src) \cup ValidKeys(c, src)) =>
            /\ err = ""
            /\ inst.k = "model"
            /\ \A key \in BadIntKeys(c, src) :
                  /\ key \notin DOMAIN inst.fields
                  /\ visible_fields(State, inst)[key] = IntV("0")
            /\ \A key \in ValidKeys(c, src) :
                  inst.fields[key] = Cast(FieldTrait(State, c, key), src.attrs[key])

\* a User whose number is a float was edited with number declared Int: number was dropped
C10_Witness ==
    /\ op = "edit"
    /\ src = U3
    /\ err = ""
    /\ inst.k = "model"
    /\ FieldTrait(State, inst.cls, "number").tk = "Int"
    /\ "number" \notin DOMAIN inst.fields
    /\ inst.fields["name"] = StrV("F3")

\* C11 as stated: converting a top-level instance back returns a native object exactly when
\* the instance holds a back-reference to one, and an instance built from a mapping returns
\* a plain mapping, never the editable instance.
C11_MappingReturnsMapping ==
    (op = "get_object" /\ inst.k \in {"model", "generic"} /\ (inst.k = "generic" => ~inst.is_list)) =>
        /\ out.k = "obj" <=> inst.orig.k = "obj"
        /\ src.k = "dict" => (out.k = "dict" /\ out # inst)

\* C11 amended: a ClassModel instance with a back-reference returns the original object,
\* every attribute the editor shows written over the attribute of that name; a ClassModel
\* instance without one (built from a mapping, or reset) returns the editable instance
\* itself; a GenericTrait built from a mapping returns a plain mapping of its fields.
C11_ConvertBack ==
    op = "get_object" =>
        /\ (inst.k = "model" /\ inst.orig.k = "obj") =>
              /\ out.k = "obj"
              /\ out.t = inst.orig.t
              /\ DOMAIN out.attrs = DOMAIN inst.orig.attrs \cup DOMAIN visible_fields(State, inst)
              /\ \A key \in DOMAIN inst.orig.attrs \ DOMAIN visible_fields(State, inst) :
                    out.attrs[key] = inst.orig.attrs[key]
              /\ \A key \in DOMAIN inst.fields : IsBase(inst.fields[key]) => out.attrs[key] = inst.fields[key]
        /\ (inst.k = "model" /\ inst.orig.k = "none") => out = inst
        /\ (inst.k = "generic" /\ inst.is_dict) =>
              (out.k = "dict" /\ DOMAIN out.attrs = DOMAIN inst.fields)

\* a mapping was edited with a hand-written class registered for it: converting back
\* returned the editable instance
C11_Witness ==
    /\ op = "get_object"
    /\ src = D1
    /\ inst.k = "model"
    /\ inst.cls = "UserModel"
    /\ inst.orig.k = "none"
    /\ out = inst
    /\ inst.fields["name"] = StrV("F1")

\* C12: whatever the interleaving of two threads that synthesize a class for one type name,
\* one model class exists for the name, and two threads that hold a class for the same
\* name hold the same one.
C12_OneSchemaPerRace ==
    /\ \A c1, c2 \in DynamicModels : classes[c1].name = classes[c2].name => c1 = c2
    /\ \A t1, t2 \in Threads :
          (thr[t1].pc = "done" /\ thr[t2].pc = "done"
              /\ TypeName(State, thr[t1].obj) = TypeName(State, thr[t2].obj)) =>
              thr[t1].cls = thr[t2].cls

\* C13: editing an object that holds an object of its own type name makes the nested
\* editor object and the outer one instances of one class, the class the registry holds for
\* the name and the class the outer class declares for the attribute.
C13_NestedOwnType ==
    (op = "edit" /\ err = "" /\ src.k = "obj" /\ inst.k = "model") =>
        \A key \in DOMAIN src.attrs :
            (src.attrs[key].k = "obj" /\ src.attrs[key].t = src.t) =>
                /\ inst.cls = Lookup(dyn, src.t)
                /\ FieldTrait(State, inst.cls, key) = InstanceOf(inst.cls)
                /\ key \in DOMAIN inst.fields
                /\ inst.fields[key].k = "model"
                /\ inst.fields[key].cls = inst.cls

\* C14: the list class of a ListClassModel built from a list carries, as _orig_class, the
\* type of the first element of that list, and the conversion back returns objects of that
\* type.
C14_OriginElementClass ==
    /\ (op = "edit" /\ err = "" /\ inst.k = "listmodel" /\ src.k = "list") =>
          classes[inst.cls].orig_class = TypeName(State, src.items[1])
    /\ (op = "get_object" /\ err = "" /\ inst.k = "listmodel" /\ src.k = "list"
            /\ TypeName(State, src.items[1]) \in NoArgTypes) =>
          \A i \in 1..Len(out.items) :
              out.items[i].k = "obj" /\ out.items[i].t = TypeName(State, src.items[1])

\* whether the appended element is an instance of the list's inner class
ArgMatches == arg.k = "model" /\ arg.cls = classes[before.cls].inner

GenericKeys(kinds) ==
    IF op' = "edit" /\ err' = "" /\ src'.k = "obj" /\ inst'.k = "model" /\ inst'.cls \in DOMAIN classes
    THEN {key \in DOMAIN src'.attrs \cap DOMAIN classes[inst'.cls].traits :
              classes[inst'.cls].traits[key].tk = "Generic" /\ src'.attrs[key].k \in kinds}
    ELSE {}

\* the field's declared kind was replaced and the field holds the converted value
Upgraded(key) ==
    /\ classes'[inst'.cls].traits[key].tk \in {"Instance", "InstList", "InstGeneric"}
    /\ key \in DOMAIN inst'.fields
    /\ inst'.fields[key].k \in {"model", "listmodel", "generic"}
    /\ Accepts(classes'[inst'.cls].traits[key], inst'.fields[key])

\* C16: assigning a struct-like or sequence-like value to a field declared Generic replaces
\* the field's declared kind with the kind inferred from the value, and the field holds the
\* converted value.
C16_GenericUpgrade == [][\A key \in GenericKeys({"obj", "dict", "list"}) : Upgraded(key)]_vars

\* the keys of the object being edited whose class declared a concrete kind before the edit
\* that rejects the non-empty list the key holds
RejectedListKeys ==
    IF op' = "edit" /\ src'.k = "obj" /\ get_obj_t(State, src'.t) # NoClass
    THEN {key \in DOMAIN src'.attrs \cap DOMAIN classes[get_obj_t(State, src'.t)].traits :
              /\ classes[get_obj_t(State, src'.t)].traits[key].tk \notin {"Generic", "Python"}
              /\ src'.attrs[key].k = "list" /\ Len(src'.attrs[key].items) > 0
              /\ ~Accepts(classes[get_obj_t(State, src'.t)].traits[key], src'.attrs[key])}
    ELSE {}

\* C17: a non-empty sequence that fails validation against the field's concrete kind is
\* built into a list instance, the field's declared kind is replaced by the list kind and
\* the field holds the list instance, whether or not the list class existed before.
C17_ListReroute ==
    [][\A key \in RejectedListKeys :
           /\ err' = "" /\ inst'.k = "model"
           /\ classes'[inst'.cls].traits[key].tk \in {"Instance", "InstList"}
           /\ key \in DOMAIN inst'.fields
           /\ inst'.fields[key].k = "listmodel"
           /\ Accepts(classes'[inst'.cls].traits[key], inst'.fields[key])]_vars

\* C18: no failure to coerce one field or one list element aborts the construction: every
\* edit returns an editor object, and no error reaches the caller.
C18_NoAbort == op = "edit" => (err = "" /\ inst.k \in {"model", "listmodel", "generic"})

\* C19: converting back a list instance whose list class has an _orig_class raises nothing
\* and returns a list of the same length and order: an item whose class can be built with no
\* arguments comes back as a new object of that class carrying the item's converted fields,
\* any other item comes back as the editor instance it is.
C19_CastBackItems ==
    (op = "get_object" /\ inst.k = "listmodel" /\ classes[inst.cls].orig_class # "") =>
        /\ err = "" /\ out.k = "list" /\ Len(out.items) = Len(inst.matrix)
        /\ \A i \in 1..Len(inst.matrix) :
              IF classes[inst.cls].orig_class \in NoArgTypes \cup NoDictTypes
              THEN /\ out.items[i].k \in {"obj", "dict"}
                   /\ TypeName(State, out.items[i]) = classes[inst.cls].orig_class
                   /\ out.items[i].attrs = get_object(State, inst.matrix[i], TRUE).attrs
              ELSE out.items[i] = inst.matrix[i]

\* C20: the attributes of an instance built by an edit are exactly the attributes its class
\* declares: no attribute of the source that the class does not declare becomes a key.
C20_NoExtraKeys ==
    (op = "edit" /\ err = "" /\ inst.k = "model") =>
        DOMAIN visible_fields(State, inst) = DOMAIN classes[inst.cls].traits

\* C21: a value of a base type given to the entry point is classified as a scalar of its
\* base trait and passed through unchanged, a text included; no class is created and no
\* registry entry is added.
C21_ScalarPassThrough ==
    (op = "edit" /\ IsBase(src)) =>
        /\ err = "" /\ inst = src
        /\ get_or_create_trait_for(State, src) = Res(State, BaseTrait(src), src, "")

\* C22: the type name of a struct-like value resolves to nothing or to a model class, never
\* to a list class, and editing the value yields no list instance.
C22_StructNeverList ==
    /\ \A obj \in {x \in ListSamples : HasVars(x)} :
          \/ get_obj_t(State, obj.t) = NoClass
          \/ classes[get_obj_t(State, obj.t)].kind = "model"
    /\ (op = "edit" /\ err = "" /\ HasVars(src)) => inst.k = "model"

====
